---- MODULE Spec2Model ----
(***************************************************************************)
(* A model of app.py, the AI Research Paper Assistant: the three flows of  *)
(* the page (Generate Summary, Suggest Related Papers, Search Research     *)
(* Papers) and the pure helpers they call (clean_text, parse_arxiv,        *)
(* predict_user_intent, search_arxiv).                                     *)
(*                                                                         *)
(* Strings.  A Python string is a sequence of atoms.  An atom is either a  *)
(* piece of text that holds none of the characters the code looks for      *)
(* (a word, a blank " ", an "&") or one of the literal tags the code       *)
(* splits on ("<entry>", "<title>", ...).  No tag is a substring of        *)
(* another and no text atom holds "<" or ">", so str.split on a tag is     *)
(* exactly a split of the atom sequence on that atom.                      *)
(*                                                                         *)
(* The pasted text (text_input) is only ever measured, collapsed and cut,  *)
(* so it is kept run-length encoded: a sequence of runs [kind, n], kind    *)
(* "w" for n non-blank characters and "s" for n whitespace characters.     *)
(*                                                                         *)
(* The names re, time, requests, fitz and TfidfVectorizer are used by the  *)
(* file without an import statement in it; the model takes them to be the  *)
(* standard modules of those names.                                        *)
(***************************************************************************)
EXTENDS Integers, Sequences, FiniteSets, TLC

VARIABLES
    pc,          \* where the running script is
    tab,         \* the tab whose block ran last in this script run
    text_input,  \* the text area's value (run-length encoded)
    length,      \* the "Summary Length" radio
    content,     \* tab1's local content
    sumCall,     \* the arguments of the call of summarizer, or NoSumCall
    kwInput,     \* the argument of the call of extract_keywords, or NoKwCall
    keywords,    \* what extract_keywords returned
    intent,      \* what predict_user_intent returned, or NoCall
    log,         \* the steps of the Generate Summary flow, in order
    num_papers,  \* the number input of the running tab
    query,       \* the search query of the running tab
    url,         \* the URL the running tab handed to requests.get, or NoUrl
    feed,        \* the payload requests.get(...).text returned
    papers,      \* what parse_arxiv returned
    svc,         \* how the search service answered the last request
    shown,       \* the records the tab rendered
    warned,      \* whether st.error or st.warning rendered a message
    fault        \* the exception that ended the script run, or "none"

vars == <<pc, tab, text_input, length, content, sumCall, kwInput, keywords,
          intent, log, num_papers, query, url, feed, papers, svc, shown, warned,
          fault>>

\* What a variable holds before the code assigns it.
NoCall == "NoCall"

NoUrl == <<>>

NoSumCall == [called |-> FALSE, text |-> <<>>, max_length |-> 0, min_length |-> 0]

NoKwCall == [called |-> FALSE, text |-> <<>>]

----------------------------------------------------------------------------
(* Python's str and list operations on atom sequences.                     *)

IsSpace(a) == a = " "

Positions(s, a) == {i \in 1..Len(s) : s[i] = a}

Min(S) == CHOOSE x \in S : \A y \in S : x <= y

Max(S) == CHOOSE x \in S : \A y \in S : y <= x

\* s.split(sep): the pieces of s between the occurrences of sep; always at
\* least one piece.
RECURSIVE Split(_, _)
Split(s, sep) ==
    IF Positions(s, sep) = {}
    THEN <<s>>
    ELSE LET i == Min(Positions(s, sep))
         IN  <<SubSeq(s, 1, i - 1)>> \o Split(SubSeq(s, i + 1, Len(s)), sep)

\* s.strip(): s without its leading and trailing whitespace.
RECURSIVE LStrip(_)
LStrip(s) == IF s # <<>> /\ IsSpace(Head(s)) THEN LStrip(Tail(s)) ELSE s

RECURSIVE RStrip(_)
RStrip(s) ==
    IF s # <<>> /\ IsSpace(s[Len(s)]) THEN RStrip(SubSeq(s, 1, Len(s) - 1)) ELSE s

Strip(s) == RStrip(LStrip(s))

\* lst[:n] for n >= 0.
Take(lst, n) == SubSeq(lst, 1, IF n < Len(lst) THEN n ELSE Len(lst))

\* sep.join(lst)
RECURSIVE Join(_, _)
Join(sep, lst) ==
    IF lst = <<>> THEN <<>>
    ELSE IF Len(lst) = 1 THEN lst[1]
    ELSE lst[1] \o sep \o Join(sep, Tail(lst))

----------------------------------------------------------------------------
(* parse_arxiv                                                             *)

Returned(v) == [raised |-> "none", value |-> v]

Raised(e) == [raised |-> e, value |-> <<>>]

\* Lines 102-103: x.split(open)[1].split(close)[0].strip(); indexing [1] of
\* a one-piece split raises IndexError.
ElementText(entry, open, close) ==
    LET pieces == Split(entry, open)
    IN  IF Len(pieces) < 2
        THEN Raised("IndexError")
        ELSE Returned(Strip(Split(pieces[2], close)[1]))

\* The loop body, lines 102-104, on one piece of the feed.
ParseEntry(entry) ==
    LET title == ElementText(entry, "<title>", "</title>")
        link  == ElementText(entry, "<id>", "</id>")
    IN  IF title.raised # "none" THEN title
        ELSE IF link.raised # "none" THEN link
        ELSE Returned(<<title.value, link.value>>)

\* The for loop of lines 101-104 over the pieces it is given.
RECURSIVE ParseEntries(_)
ParseEntries(entries) ==
    IF entries = <<>> THEN Returned(<<>>)
    ELSE LET first == ParseEntry(Head(entries))
         IN  IF first.raised # "none" THEN first
             ELSE LET rest == ParseEntries(Tail(entries))
                  IN  IF rest.raised # "none" THEN rest
                      ELSE Returned(<<first.value>> \o rest.value)

\* A plausible slip: every piece of the split is parsed, the text before the
\* first <entry> included.
parse_arxiv_all_pieces(f) == ParseEntries(Split(f, "<entry>"))

\* Lines 98-105: the pieces after the first <entry> are parsed in order.
parse_arxiv(f) == ParseEntries(Tail(Split(f, "<entry>")))

----------------------------------------------------------------------------
(* The feeds parse_arxiv is run on.                                        *)

\* What an entry is made of: nothing, a title to trim, two titles, an id to
\* trim, a title that is never closed.
Elems ==
    { <<>>,
      <<"<title>", " ", "a", "</title>">>,
      <<"<title>", "b", "</title>", "<title>", "d", "</title>">>,
      <<"<id>", "x", " ", "</id>">>,
      <<"<title>", "c">> }

Bodies == {a \o b : a \in Elems, b \in Elems}

Entry(body) == <<"<entry>">> \o body \o <<"</entry>">>

Heads == {<<>>, <<"<title>", "f", "</title>", "<id>", "g", "</id>">>}

MaxEntries == 2

RECURSIVE EntryLists(_)
EntryLists(n) ==
    IF n = 0 THEN {<<>>}
    ELSE {<<>>} \cup {Entry(b) \o rest : b \in Bodies, rest \in EntryLists(n - 1)}

Feeds == {h \o es : h \in Heads, es \in EntryLists(MaxEntries)}

----------------------------------------------------------------------------
(* predict_user_intent                                                     *)

Survey == "Survey / Review focused research"

ModelOrAlgorithm == "Model / Algorithm based research"

DatasetOrExperimental == "Dataset / Experimental research"

General == "General research exploration"

\* str.lower() on the atoms the model uses; every other atom is lower case.
LowerAtom(a) ==
    CASE a = "Survey" -> "survey"
      [] a = "Network" -> "network"
      [] a = "Data" -> "data"
      [] a = "Model" -> "model"
      [] OTHER -> a

Lower(x) == [i \in 1..Len(x) |-> LowerAtom(x[i])]

\* any(x in k for x in words): some word of the rule is an element of k.
AnyIn(words, k) ==
    \E j \in 1..Len(words) : \E i \in 1..Len(k) : k[i] = words[j]

SurveyWords == << <<"survey">>, <<"review">> >>

ModelWords == << <<"model">>, <<"network">>, <<"algorithm">> >>

DatasetWords == << <<"dataset">>, <<"experiment">>, <<"data">> >>

\* A plausible slip: the first two rules in the other order.
predict_user_intent_model_first(kws) ==
    LET k == [i \in 1..Len(kws) |-> Lower(kws[i])]
    IN  IF AnyIn(ModelWords, k) THEN ModelOrAlgorithm
        ELSE IF AnyIn(SurveyWords, k) THEN Survey
        ELSE IF AnyIn(DatasetWords, k) THEN DatasetOrExperimental
        ELSE General

\* Lines 73-81.
predict_user_intent(kws) ==
    LET k == [i \in 1..Len(kws) |-> Lower(kws[i])]
    IN  IF AnyIn(SurveyWords, k) THEN Survey
        ELSE IF AnyIn(ModelWords, k) THEN ModelOrAlgorithm
        ELSE IF AnyIn(DatasetWords, k) THEN DatasetOrExperimental
        ELSE General

\* The terms predict_user_intent is run on: every rule word, some of them
\* capitalised, a word no rule names, and a word that only starts like one.
Terms ==
    { <<"Survey">>, <<"review">>, <<"model">>, <<"Network">>, <<"algorithm">>,
      <<"dataset">>, <<"experiment">>, <<"Data">>, <<"zebra">>,
      <<"survey", "s">> }

MaxTerms == 3

RECURSIVE SeqsUpTo(_, _)
SeqsUpTo(S, n) ==
    IF n = 0 THEN {<<>>}
    ELSE {<<>>} \cup {<<x>> \o rest : x \in S, rest \in SeqsUpTo(S, n - 1)}

----------------------------------------------------------------------------
(* The pasted text, run-length encoded, and the operations on it.          *)

Run(kind, n) == [kind |-> kind, n |-> n]

RECURSIVE TextLen(_)
TextLen(t) == IF t = <<>> THEN 0 ELSE Head(t).n + TextLen(Tail(t))

\* text.strip()
RECURSIVE LStripRuns(_)
LStripRuns(t) ==
    IF t # <<>> /\ Head(t).kind = "s" THEN LStripRuns(Tail(t)) ELSE t

RECURSIVE RStripRuns(_)
RStripRuns(t) ==
    IF t # <<>> /\ t[Len(t)].kind = "s"
    THEN RStripRuns(SubSeq(t, 1, Len(t) - 1))
    ELSE t

StripRuns(t) == RStripRuns(LStripRuns(t))

\* re.sub(r"\s+", " ", text): every maximal stretch of whitespace becomes one
\* blank.
RECURSIVE Collapse(_)
Collapse(t) ==
    IF t = <<>> THEN <<>>
    ELSE LET rest == Collapse(Tail(t))
         IN  IF Head(t).kind # "s" THEN <<Head(t)>> \o rest
             ELSE IF rest # <<>> /\ Head(rest).kind = "s" THEN rest
             ELSE <<Run("s", 1)>> \o rest

clean_text(text) == StripRuns(Collapse(text))

\* text[:n]
RECURSIVE TakeChars(_, _)
TakeChars(t, n) ==
    IF t = <<>> \/ n <= 0 THEN <<>>
    ELSE IF Head(t).n <= n THEN <<Head(t)>> \o TakeChars(Tail(t), n - Head(t).n)
    ELSE <<Run(Head(t).kind, n)>>

\* Line 137: the gate of the Generate Summary and Suggest Papers buttons.
ReadyThreshold == 50

input_ready(text) == TextLen(StripRuns(text)) > ReadyThreshold

\* Line 165: the check inside the Generate Summary flow.
MinContentLen == 200

TooShort(c) == TextLen(c) < MinContentLen

MaxContentLen == 2000

\* A plausible slip: the content is sent whole.
TruncateNothing(c) == c

\* Line 169: content[:2000].
Truncate(c) == TakeChars(c, MaxContentLen)

\* A plausible slip: Medium given Short's budget.
max_len_medium_as_short(tier) ==
    CASE tier = "Short" -> 80 [] tier = "Medium" -> 80 [] tier = "Long" -> 220

\* Line 171: the table of maximum summary lengths.
max_len(tier) ==
    CASE tier = "Short" -> 80 [] tier = "Medium" -> 140 [] tier = "Long" -> 220

\* Line 184: int(max_len * 0.4).  The product is 32.0, 56.00000000000001 and
\* 88.0 for the three table entries, so int() gives the integer quotient.
min_len(m) == (m * 4) \div 10

Tiers == <<"Short", "Medium", "Long">>

\* The texts pasted: up to MaxRuns runs, each of a length on one side of a
\* threshold of the code.
RunLens == {1, 60, 150, 2500}

Runs == {Run(k, n) : k \in {"w", "s"}, n \in RunLens}

MaxRuns == 2

Texts == SeqsUpTo(Runs, MaxRuns)

\* Line 68: top_n.
top_n == 8

\* extract_keywords returns the fitted vocabulary's terms, lower case and in
\* alphabetical order, at most top_n of them.  TfidfVectorizer.fit raises
\* ValueError ("empty vocabulary") when the text holds no term that is not a
\* stop word, so what it returns is never empty.
Vocabulary == <<"model", "survey", "zebra">>

RECURSIVE Pick(_, _)
Pick(v, S) ==
    IF v = <<>> THEN <<>>
    ELSE (IF Len(v) \in S THEN Pick(SubSeq(v, 1, Len(v) - 1), S) \o <<<<v[Len(v)]>>>>
          ELSE Pick(SubSeq(v, 1, Len(v) - 1), S))

KeywordLists ==
    {Pick(Vocabulary, S) : S \in {T \in SUBSET (1..Len(Vocabulary)) :
                                     T # {} /\ Cardinality(T) <= top_n}}

----------------------------------------------------------------------------
(* search_arxiv and the payloads the search service answers with.          *)

\* s.split(): the words of s, split on stretches of whitespace.
RECURSIVE SplitWS(_)
SplitWS(s) ==
    LET t == LStrip(s)
        blanks == {i \in 1..Len(t) : IsSpace(t[i])}
    IN  IF t = <<>> THEN <<>>
        ELSE IF blanks = {} THEN <<t>>
        ELSE <<SubSeq(t, 1, Min(blanks) - 1)>>
             \o SplitWS(SubSeq(t, Min(blanks) + 1, Len(t)))

UrlHead == <<"http://export.arxiv.org/api/query", "?", "search_query=all:">>

UrlTail(m) == <<"&", "start=0", "&", "max_results=" \o ToString(m)>>

\* Line 95: the f-string; the query is put in as it is.
search_arxiv(q, m) == UrlHead \o q \o UrlTail(m)

\* Line 94: the default of max_results.
DefaultMaxResults == 50

\* Lines 205-206 and 233-234: the range of the number inputs.
NumMin == 1

NumMax == 50

NumChoices == {NumMin, NumMin + 1, NumMax}

\* A plausible slip: the search runs whatever the box holds.
QueryGivenAlways(q) == TRUE

\* Line 245: if query.
QueryGiven(q) == q # <<>>

RECURSIVE Rep(_, _)
Rep(a, n) == IF n = 0 THEN <<>> ELSE <<a>> \o Rep(a, n - 1)

\* A feed of n well-formed entries; entry i is titled "p" i times.
RECURSIVE OkEntries(_, _)
OkEntries(i, n) ==
    IF i > n THEN <<>>
    ELSE Entry(<<"<title>">> \o Rep("p", i) \o <<"</title>", "<id>">>
               \o Rep("u", i) \o <<"</id>">>)
         \o OkEntries(i + 1, n)

OkFeed(n) == <<"<feed>", "<title>", "f", "</title>", "<id>", "g", "</id>">>
             \o OkEntries(1, n) \o <<"</feed>">>

MaxPayload == 3

\* What requests.get(url).text may hold: a feed of any number of entries
\* (the service is not bound by max_results), a feed with an entry that has
\* no title, and, with a status that is not a success, an error page or
\* arXiv's error feed; .text is read whatever the status.
Payloads ==
    {[status |-> "ok", body |-> OkFeed(n)] : n \in 0..MaxPayload}
    \cup {[status |-> "ok", body |-> Entry(<<"<id>", "u", "</id>">>)],
          [status |-> "error", body |-> <<"Service Unavailable">>],
          [status |-> "error",
           body |-> Entry(<<"<title>", "Error", "</title>",
                            "<id>", "errors", "</id>">>)]}

\* What is typed into the search box.
QueryAtoms == {"Survey", " ", "&", "+"}

MaxQueryLen == 3

\* Line 242: the placeholder's example, and a query of two rule words.
ExampleQuery == <<"smart", " ", "autonomous", " ", "drone">>

Queries ==
    SeqsUpTo(QueryAtoms, MaxQueryLen)
    \cup {ExampleQuery, <<"Network", " ", "Data">>}

----------------------------------------------------------------------------
(* The page.  Every interaction runs the script from the top: the block of *)
(* tab1, then tab2, then tab3.  A button's flow runs in the run its click  *)
(* starts; tab3's search runs in every run in which the search box is not  *)
(* empty and that reaches it (st.stop() and an exception end the run).     *)
(* A widget's value is drawn where the script reads it.                    *)

\* The script's variables before a run assigns them (num_papers: no tab has
\* read its number input yet, so nothing is capped).
Fresh ==
    /\ tab = "none" /\ length = NoCall /\ content = <<>>
    /\ sumCall = NoSumCall /\ kwInput = NoKwCall /\ keywords = <<>>
    /\ intent = NoCall /\ log = <<>> /\ num_papers = NumMax /\ query = <<>>
    /\ url = NoUrl /\ feed = <<>> /\ papers = <<>> /\ svc = "none"
    /\ shown = <<>> /\ warned = FALSE /\ fault = "none"

\* Lines 162-186, up to the call of summarizer.
ClickGenerate(tier) ==
    /\ pc = "idle"
    /\ input_ready(text_input)
    /\ tab' = "tab1"
    /\ length' = tier
    /\ LET c == clean_text(text_input)
       IN  IF TooShort(c)
           THEN /\ content' = c
                /\ log' = <<"normalize", "readiness">>
                /\ warned' = TRUE
                /\ pc' = "stopped"
                /\ UNCHANGED sumCall
           ELSE /\ content' = Truncate(c)
                /\ log' = <<"normalize", "readiness", "truncate", "summarize">>
                /\ sumCall' = [called |-> TRUE,
                               text |-> content',
                               max_length |-> max_len(tier),
                               min_length |-> min_len(max_len(tier))]
                /\ warned' = warned
                /\ pc' = "summarizing"
    /\ UNCHANGED <<text_input, kwInput, keywords, intent, num_papers, query,
                   url, feed, papers, svc, shown, fault>>

\* The summarizer raises: nothing in the script catches it.
SummarizerRaises ==
    /\ pc = "summarizing"
    /\ fault' = "SummarizerError"
    /\ pc' = "crashed"
    /\ UNCHANGED <<tab, text_input, length, content, sumCall, kwInput, keywords,
                   intent, log, num_papers, query, url, feed, papers, svc,
                   shown, warned>>

\* Lines 188-193: the summary is shown and extract_keywords is called.
SummarizerReturns ==
    /\ pc = "summarizing"
    /\ kwInput' = [called |-> TRUE, text |-> content]
    /\ log' = Append(log, "keywords")
    /\ pc' = "extracting"
    /\ UNCHANGED <<tab, text_input, length, content, sumCall, keywords, intent,
                   num_papers, query, url, feed, papers, svc, shown, warned,
                   fault>>

\* Line 70: vec.fit raises ValueError on an empty vocabulary.
ExtractRaises ==
    /\ pc = "extracting"
    /\ fault' = "ValueError"
    /\ pc' = "crashed"
    /\ UNCHANGED <<tab, text_input, length, content, sumCall, kwInput, keywords,
                   intent, log, num_papers, query, url, feed, papers, svc,
                   shown, warned>>

\* Lines 193-195: the keywords come back and the intent is shown.
GenerateKeywords(kws) ==
    /\ pc = "extracting"
    /\ tab = "tab1"
    /\ keywords' = kws
    /\ intent' = predict_user_intent(kws)
    /\ log' = Append(log, "intent")
    /\ pc' = "tab3"
    /\ UNCHANGED <<tab, text_input, length, content, sumCall, kwInput,
                   num_papers, query, url, feed, papers, svc, shown, warned,
                   fault>>

\* Lines 203-215, up to the call of extract_keywords.
ClickSuggest(n) ==
    /\ pc = "idle"
    /\ input_ready(text_input)
    /\ tab' = "tab2"
    /\ num_papers' = n
    /\ content' = clean_text(text_input)
    /\ kwInput' = [called |-> TRUE, text |-> content']
    /\ pc' = "extracting"
    /\ UNCHANGED <<text_input, length, sumCall, keywords, intent, log, query,
                   url, feed, papers, svc, shown, warned, fault>>

\* Lines 215-218: the query is made of the first three keywords and the
\* request is sent.
SuggestKeywords(kws) ==
    /\ pc = "extracting"
    /\ tab = "tab2"
    /\ keywords' = kws
    /\ query' = Join(<<" ">>, Take(kws, 3))
    /\ url' = search_arxiv(query', DefaultMaxResults)
    /\ pc' = "requesting"
    /\ UNCHANGED <<tab, text_input, length, content, sumCall, kwInput, intent,
                   log, num_papers, feed, papers, svc, shown, warned, fault>>

\* Lines 231-247: tab3's block, up to the request.
SearchTab(q, n) ==
    /\ pc \in {"idle", "tab3"}
    /\ tab' = "tab3"
    /\ num_papers' = n
    /\ query' = q
    /\ feed' = <<>>
    /\ papers' = <<>>
    /\ svc' = "none"
    /\ shown' = <<>>
    /\ IF QueryGiven(q)
       THEN /\ url' = search_arxiv(q, n)
            /\ pc' = "requesting"
       ELSE /\ url' = NoUrl
            /\ pc' = "done"
    /\ UNCHANGED <<text_input, length, content, sumCall, kwInput, keywords,
                   intent, log, warned, fault>>

\* Line 96: requests.get raises (no connection, a timeout): nothing in the
\* script catches it.
RequestRaises ==
    /\ pc = "requesting"
    /\ svc' = "raise"
    /\ fault' = "ConnectionError"
    /\ pc' = "crashed"
    /\ UNCHANGED <<tab, text_input, length, content, sumCall, kwInput, keywords,
                   intent, log, num_papers, query, url, feed, papers, shown,
                   warned>>

\* Lines 218-223 and 247-254: the payload comes back, is parsed and shown.
RequestReturns(p) ==
    /\ pc = "requesting"
    /\ svc' = p.status
    /\ feed' = p.body
    /\ LET r == parse_arxiv(p.body)
       IN  IF r.raised # "none"
           THEN /\ fault' = r.raised
                /\ pc' = "crashed"
                /\ UNCHANGED <<papers, shown, intent>>
           ELSE /\ papers' = r.value
                /\ fault' = fault
                /\ IF tab = "tab2"
                   THEN /\ shown' = Take(papers', num_papers)
                        /\ intent' = intent
                        /\ pc' = "tab3"
                   ELSE /\ intent' = predict_user_intent(SplitWS(query))
                        /\ shown' = papers'
                        /\ pc' = "done"
    /\ UNCHANGED <<tab, text_input, length, content, sumCall, kwInput, keywords,
                   log, num_papers, query, url, warned>>

\* The next interaction: the script runs again from the top.
Rerun ==
    /\ pc \in {"done", "stopped", "crashed"}
    /\ pc' = "idle"
    /\ tab' = "none" /\ length' = NoCall /\ content' = <<>>
    /\ sumCall' = NoSumCall /\ kwInput' = NoKwCall /\ keywords' = <<>>
    /\ intent' = NoCall /\ log' = <<>> /\ num_papers' = NumMax /\ query' = <<>>
    /\ url' = NoUrl /\ feed' = <<>> /\ papers' = <<>> /\ svc' = "none"
    /\ shown' = <<>> /\ warned' = FALSE /\ fault' = "none"
    /\ UNCHANGED text_input

\* The Generate Summary flow, with the search box left empty.
InitSummarize == pc = "idle" /\ text_input \in Texts /\ Fresh

NextSummarize ==
    \/ \E i \in 1..Len(Tiers) : ClickGenerate(Tiers[i])
    \/ SummarizerRaises
    \/ SummarizerReturns
    \/ ExtractRaises
    \/ \E kws \in KeywordLists : GenerateKeywords(kws)
    \/ \E n \in NumChoices : SearchTab(<<>>, n)
    \/ Rerun

SpecSummarize == InitSummarize /\ [][NextSummarize]_vars

\* The two discovery flows.
DiscoverTexts == {<<>>, <<Run("w", 60)>>}

InitDiscover == pc = "idle" /\ text_input \in DiscoverTexts /\ Fresh

NextDiscover ==
    \/ \E n \in NumChoices : ClickSuggest(n)
    \/ ExtractRaises
    \/ \E kws \in KeywordLists : SuggestKeywords(kws)
    \/ \E q \in Queries, n \in NumChoices : SearchTab(q, n)
    \/ RequestRaises
    \/ \E p \in Payloads : RequestReturns(p)
    \/ Rerun

SpecDiscover == InitDiscover /\ [][NextDiscover]_vars

\* parse_arxiv alone, on every feed of Feeds.
RunParse ==
    /\ pc = "parse"
    /\ LET r == parse_arxiv(feed)
       IN  papers' = r.value /\ fault' = r.raised
    /\ pc' = "parsed"
    /\ UNCHANGED <<tab, text_input, length, content, sumCall, kwInput, keywords,
                   intent, log, num_papers, query, url, feed, svc, shown,
                   warned>>

InitParse ==
    /\ pc = "parse" /\ text_input = <<>>
    /\ tab = "none" /\ length = NoCall /\ content = <<>>
    /\ sumCall = NoSumCall /\ kwInput = NoKwCall /\ keywords = <<>>
    /\ intent = NoCall /\ log = <<>> /\ num_papers = NumMax /\ query = <<>>
    /\ url = NoUrl /\ feed \in Feeds /\ papers = <<>> /\ svc = "none"
    /\ shown = <<>> /\ warned = FALSE /\ fault = "none"

SpecParse == InitParse /\ [][RunParse]_vars

\* predict_user_intent alone, on every list of up to MaxTerms terms.
RunIntent ==
    /\ pc = "classify"
    /\ intent' = predict_user_intent(keywords)
    /\ pc' = "classified"
    /\ UNCHANGED <<tab, text_input, length, content, sumCall, kwInput, keywords,
                   log, num_papers, query, url, feed, papers, svc, shown,
                   warned, fault>>

InitIntent ==
    /\ pc = "classify" /\ text_input = <<>>
    /\ tab = "none" /\ length = NoCall /\ content = <<>>
    /\ sumCall = NoSumCall /\ kwInput = NoKwCall
    /\ keywords \in SeqsUpTo(Terms, MaxTerms)
    /\ intent = NoCall /\ log = <<>> /\ num_papers = NumMax /\ query = <<>>
    /\ url = NoUrl /\ feed = <<>> /\ papers = <<>> /\ svc = "none"
    /\ shown = <<>> /\ warned = FALSE /\ fault = "none"

SpecIntent == InitIntent /\ [][RunIntent]_vars

----------------------------------------------------------------------------
(* What the claims speak of, stated on the feed itself and not by way of   *)
(* split.                                                                  *)

Tags == {"<entry>", "</entry>", "<title>", "</title>", "<id>", "</id>"}

CloseOf(open) == IF open = "<title>" THEN "</title>" ELSE "</id>"

\* s is text and title and id elements that hold text only.
RECURSIVE Flat(_)
Flat(s) ==
    IF s = <<>> THEN TRUE
    ELSE IF Head(s) \notin Tags THEN Flat(Tail(s))
    ELSE IF Head(s) \notin {"<title>", "<id>"} THEN FALSE
    ELSE LET rest == Tail(s)
             tags == {j \in 1..Len(rest) : rest[j] \in Tags}
         IN  /\ tags # {}
             /\ rest[Min(tags)] = CloseOf(Head(s))
             /\ Flat(SubSeq(rest, Min(tags) + 1, Len(rest)))

EntryStarts(f) == Positions(f, "<entry>")

\* The position of the </entry> that closes the entry opened at i, or 0.
EntryClose(f, i) ==
    LET later == {j \in Positions(f, "</entry>") \cup EntryStarts(f) : j > i}
    IN  IF later # {} /\ f[Min(later)] = "</entry>" THEN Min(later) ELSE 0

Inside(f, i) == SubSeq(f, i + 1, EntryClose(f, i) - 1)

WellFormedEntry(f, i) ==
    /\ EntryClose(f, i) # 0
    /\ Flat(Inside(f, i))
    /\ Positions(Inside(f, i), "<title>") # {}
    /\ Positions(Inside(f, i), "<id>") # {}

Trimmed(s) ==
    LET solid == {i \in 1..Len(s) : ~IsSpace(s[i])}
    IN  IF solid = {} THEN <<>> ELSE SubSeq(s, Min(solid), Max(solid))

\* The trimmed text of the first open ... close element of s.
FirstText(s, open) ==
    LET a == Min(Positions(s, open))
        b == Min({j \in Positions(s, CloseOf(open)) : j > a})
    IN  Trimmed(SubSeq(s, a + 1, b - 1))

RECURSIVE Ascending(_)
Ascending(S) ==
    IF S = {} THEN <<>> ELSE <<Min(S)>> \o Ascending(S \ {Min(S)})

\* One record per well-formed entry, in document order.
ExpectedRecords(f) ==
    LET starts == Ascending({i \in EntryStarts(f) : WellFormedEntry(f, i)})
    IN  [k \in 1..Len(starts) |->
            <<FirstText(Inside(f, starts[k]), "<title>"),
              FirstText(Inside(f, starts[k]), "<id>")>>]

AllWellFormed(f) == \A i \in EntryStarts(f) : WellFormedEntry(f, i)

IsPrefix(s, t) == Len(s) <= Len(t) /\ s = SubSeq(t, 1, Len(s))

----------------------------------------------------------------------------
(* The claims.                                                             *)

\* C1: in both discovery flows the list of records presented has at most
\* maxResults (num_papers) elements, whatever the payload holds.
C1_ShownAtMostRequested == Len(shown) <= num_papers

\* C2: parse_arxiv skips an entry that lacks a title or an id element without
\* raising, and returns one record for every well-formed entry, in order.
C2_MalformedEntriesSkipped ==
    pc = "parsed" => fault = "none" /\ papers = ExpectedRecords(feed)

\* C3: on a feed whose entries are all well-formed, parse_arxiv returns exactly
\* one (title, link) record per entry, in document order and uncapped, the
\* title and link being the trimmed text of the entry's first title and id
\* elements; a title or id before the first entry gives no record.
C3_WellFormedFeedParsed ==
    (pc = "parsed" /\ AllWellFormed(feed)) =>
        /\ fault = "none"
        /\ Len(papers) = Cardinality(EntryStarts(feed))
        /\ papers = ExpectedRecords(feed)

\* C3's case: a feed that opens with its own title and id, then two
\* well-formed entries, the first with a title that needs trimming.
C3_Witness ==
    /\ pc = "parsed"
    /\ AllWellFormed(feed)
    /\ Len(feed) > 0 /\ feed[1] = "<title>"
    /\ Cardinality(EntryStarts(feed)) = MaxEntries
    /\ Len(papers) = MaxEntries
    /\ papers[1] = << <<"a">>, <<"x">> >>
    /\ papers[2] = << <<"b">>, <<"x">> >>

\* C4: predict_user_intent is first-match-wins: Survey if any term, lower
\* cased, is survey or review; else ModelOrAlgorithm if any is model,
\* algorithm or network; else DatasetOrExperimental if any is dataset,
\* experiment or data; else General.
C4_FirstMatchWins ==
    LET Has(S) == \E i \in 1..Len(keywords) : Lower(keywords[i]) \in S
    IN  pc = "classified" =>
            intent = IF Has({<<"survey">>, <<"review">>}) THEN Survey
                     ELSE IF Has({<<"model">>, <<"algorithm">>, <<"network">>})
                          THEN ModelOrAlgorithm
                     ELSE IF Has({<<"dataset">>, <<"experiment">>, <<"data">>})
                          THEN DatasetOrExperimental
                     ELSE General

\* C4's case: model comes before survey in the terms, and the label is Survey.
C4_Witness ==
    /\ pc = "classified"
    /\ Len(keywords) = 2
    /\ keywords[1] = <<"model">>
    /\ keywords[2] = <<"Survey">>
    /\ intent = Survey

\* C5: in either discovery flow no request is issued for an empty query.
C5_NoRequestForEmptyQuery ==
    (tab \in {"tab2", "tab3"} /\ query = <<>>) =>
        (url = NoUrl /\ svc = "none" /\ pc # "requesting")

\* C5's case: tab3's block ran with an empty search box and sent nothing.
C5_Witness ==
    tab = "tab3" /\ pc = "done" /\ query = <<>> /\ url = NoUrl /\ shown = <<>>

\* C6: Readiness(T) is len(trim(T)) > threshold, and the Generate Summary
\* flow reaches the summarization call exactly when it holds: the button's
\* gate and the check inside the flow agree.
C6_SingleReadiness ==
    LET Readiness == TextLen(StripRuns(text_input)) > ReadyThreshold
    IN  /\ sumCall.called => Readiness
        /\ (tab = "tab1" /\ pc = "stopped") => ~Readiness

\* C7: a failure of the search service ends the flow with an empty record
\* list and a warning, never with an exception nobody handles.
C7_ServiceFailureRecovered ==
    (svc \in {"raise", "error"}) =>
        (fault = "none" /\ shown = <<>> /\ warned)

\* C8: the URL search_arxiv builds holds the query term percent-encoded: no
\* literal blank, "&" or "+" inside it, and no parameter beside search_query,
\* start and max_results.
C8_QueryTermEncoded ==
    url # NoUrl =>
        LET term == SubSeq(url, Len(UrlHead) + 1, Len(url) - Len(UrlTail(0)))
            params == Split(SubSeq(url, Min(Positions(url, "?")) + 1, Len(url)), "&")
        IN  /\ \A i \in 1..Len(term) : term[i] \notin {" ", "&", "+"}
            /\ Len(params) = 3

\* C9: the budget passed to the summarizer grows strictly with the tier, in
\* its maximum and in its minimum, the minimum being 40% of the maximum
\* rounded down and strictly below it.
C9_BudgetIncreasing ==
    sumCall.called =>
        /\ sumCall.min_length < sumCall.max_length
        /\ 10 * sumCall.min_length <= 4 * sumCall.max_length
        /\ 4 * sumCall.max_length < 10 * (sumCall.min_length + 1)
        /\ \A i, j \in 1..Len(Tiers) :
              (Tiers[j] = length /\ i < j) =>
                  /\ max_len(Tiers[i]) < sumCall.max_length
                  /\ min_len(max_len(Tiers[i])) < sumCall.min_length
        /\ \A i, j \in 1..Len(Tiers) :
              (Tiers[j] = length /\ i > j) =>
                  /\ max_len(Tiers[i]) > sumCall.max_length
                  /\ min_len(max_len(Tiers[i])) > sumCall.min_length

\* C9's case: the summarizer was called for the Medium tier.
C9_Witness == sumCall.called /\ length = "Medium" /\ pc = "summarizing"

\* C10: the Generate Summary flow runs normalize, readiness check, truncate,
\* summarization, keyword extraction, intent, in that order: the summarizer
\* gets the normalized text cut to its first 2000 characters, the extractor
\* gets the same string and only once the summarizer has returned, the intent
\* is that of the keywords, and a rejected text goes no further.
C10_SummarizeOrder ==
    /\ IsPrefix(log, <<"normalize", "readiness", "truncate", "summarize",
                       "keywords", "intent">>)
    /\ sumCall.called =>
          /\ sumCall.text = TakeChars(clean_text(text_input), MaxContentLen)
          /\ TextLen(sumCall.text) <= MaxContentLen
          /\ Len(log) >= 4
    /\ kwInput.called =>
          /\ sumCall.called
          /\ kwInput.text = sumCall.text
          /\ pc # "summarizing" /\ fault # "SummarizerError"
          /\ Len(log) >= 5
    /\ intent # NoCall =>
          /\ kwInput.called
          /\ intent = predict_user_intent(keywords)
          /\ Len(log) = 6
    /\ pc = "stopped" =>
          /\ log = <<"normalize", "readiness">>
          /\ ~sumCall.called /\ ~kwInput.called /\ intent = NoCall

\* C10's case: a text longer than the budget went through the whole flow.
C10_Witness ==
    /\ tab = "tab1"
    /\ intent # NoCall
    /\ TextLen(clean_text(text_input)) > MaxContentLen
    /\ TextLen(kwInput.text) = MaxContentLen
    /\ Len(log) = 6

====
